---- MODULE Spec2Model ----
(***************************************************************************)
(* Model of the danmaku proxy (src/danmaku_proxy.py): the dual-bucket      *)
(* batcher (DualBucketSystem), the paid-message queue (PaidDanmakuQueue),  *)
(* the consumption gate (can_consume) and the two delivery loops           *)
(* (consume_async, process_danmaku_batch).                                 *)
(*                                                                         *)
(* Scheduling.  receive_danmaku, consume_async and process_danmaku_batch   *)
(* are coroutines of one asyncio event loop, so a step of the model is the *)
(* code between two suspension points.  can_consume is a synchronous call  *)
(* (requests.get, time.sleep): while it runs no other coroutine runs, only *)
(* the clock advances.  send_to_main_server reads config['main_server_*']  *)
(* before its first suspension point; ConfigLoader does not set these      *)
(* keys, so the call raises at once unless the configuration carries them  *)
(* (main_server_configured), in which case it suspends on the POST.        *)
(***************************************************************************)
EXTENDS Integers, Sequences, FiniteSets, TLC

\* ---------------------------------------------------------------- bounds
bucket_capacity == 2
bucket_lifetime == 2
max_retry_count == 2
MaxTime == 6
MaxDanmaku == 4
MaxPaid == 2
main_server_max_retry_count == 2
MaxLoad == 5
MaxBroadcasts == 2

\* ------------------------------------------------------------- constants
None == "None"
NoTime == 0 - 1   \* start_time = None
Buckets == {"A", "B"}
paid_types == {"super_chat", "gift", "buy_guard"}
supported_types == {"danmaku", "super_chat", "gift", "buy_guard"}
\* a danmu_type outside supported_types, as a request may carry one
UnsupportedTypes == {"like"}

\* contents of the ordinary messages, in order of arrival; paid contents
DanmakuContent == <<"a", "b", "c", "d", "e", "f">>
PaidContent == <<"p", "q", "r">>
\* the danmu_type of the paid requests, in the order they arrive
PaidKind == <<"super_chat", "gift", "buy_guard">>

\* what one gate query can come back with
GateFailures == {"non200", "neterr", "badjson"}
GateResponses == {"ok_true", "ok_false", "ok_noflag", "nonobject"} \cup GateFailures

\* the two callers of send_to_main_server, and what one POST can come back with:
\* 200 with success, 200 without success, another status, an exception
Callers == {"ordinary", "paid"}
SendOutcomes == {"success", "failure", "non200", "error"}

\* the websockets that may subscribe, and what one websocket.send can end with:
\* sent, ConnectionClosed, another exception
Sockets == {"w1", "w2"}
WsOutcomes == {"ok", "closed", "error"}

VARIABLES
    danmakus,        \* bucket -> sequence of messages (deque(maxlen))
    start_time,      \* bucket -> time or NoTime
    is_active,       \* bucket -> BOOLEAN
    is_consuming,    \* bucket -> BOOLEAN
    current_bucket,  \* the bucket add_danmaku writes to
    paid_queue,      \* PaidDanmakuQueue.paid_queue
    now,             \* time.time()
    pc,              \* consume_async: "sleep" | "gate" | "sending" | "dead"
    consumable_bucket, \* consume_async's local: the bucket being drained
    retry_count,     \* can_consume's local
    gate,            \* the last can_consume call: result, queries, sleeps, last response
    ppc,             \* process_danmaku_batch: "idle" | "sending"
    received,        \* number of ordinary messages accepted so far
    received_paid,   \* number of paid messages accepted so far
    delivered,       \* sequence of the messages handed to send_to_main_server
    routed,          \* the branch the last add_danmaku took: "same" | "new" | "kept"
    send,            \* caller -> its last send_to_main_server call: retry_count, posts, result
    response,        \* what the last receive_danmaku answered: "success" | "400"
    load,            \* sustained load only: an add came since the last drain began or
                     \* ended (added), and the bucket of the last drain (drained)
    lock,            \* the holder of bucket_system.lock (bucket) and of
                     \* danmaku_queue.lock (paid), None when free
    connections,     \* WebSocketManager.connections
    bcast,           \* WebSocketManager.broadcast: its position, its local disconnected,
                     \* and what the call has seen (before, tried, failed)
    pushed,          \* websocket -> the messages sent to it
    owed,            \* websocket -> the contents handed to send_to_main_server while it
                     \* was subscribed
    main_server_configured \* config carries the main_server_* keys

vars == <<danmakus, start_time, is_active, is_consuming, current_bucket,
          paid_queue, now, pc, consumable_bucket, retry_count, gate, ppc,
          received, received_paid, delivered, routed, send, response, load,
          lock, connections, bcast, pushed, owed, main_server_configured>>

\* the variables of the locks and of the websockets, and all that the two loops and the
\* handler leave as they are
ws_vars == <<connections, bcast, pushed, owed>>
aux == <<load, lock, ws_vars>>

bucket_vars == <<danmakus, start_time, is_active, is_consuming, current_bucket>>

Other(b) == IF b = "A" THEN "B" ELSE "A"

\* faulty variant: a full deque refuses the new element instead of dropping its head
DequeAppend_keeps_head(q, x, cap) ==
    IF Len(q) >= cap THEN q ELSE Append(q, x)

\* deque(maxlen=cap).append: the head is dropped when the deque is full
DequeAppend(q, x, cap) ==
    IF Len(q) >= cap THEN Append(SubSeq(q, 2, Len(q)), x) ELSE Append(q, x)

\* ------------------------------------------------------ DualBucketSystem
\* add_danmaku: the new values of the bucket fields
add_switches == is_consuming[current_bucket]

add_target == IF add_switches THEN Other(current_bucket) ELSE current_bucket

\* faulty variant: the switch stamps the other bucket's start_time also when it is already active
add_danmaku_restamps(dm) ==
    LET t == add_target
    IN  /\ is_active' = IF add_switches THEN [is_active EXCEPT ![t] = TRUE] ELSE is_active
        /\ start_time' = IF add_switches THEN [start_time EXCEPT ![t] = now] ELSE start_time
        /\ current_bucket' = t
        /\ danmakus' = [danmakus EXCEPT ![t] = DequeAppend(@, dm, bucket_capacity)]
        /\ routed' = IF ~add_switches THEN "same" ELSE IF ~is_active[t] THEN "new" ELSE "kept"
        /\ UNCHANGED is_consuming

\* faulty variant: the switch activates the other bucket without a start_time
add_danmaku_no_stamp(dm) ==
    LET t == add_target
        activate == add_switches /\ ~is_active[t]
    IN  /\ is_active' = IF activate THEN [is_active EXCEPT ![t] = TRUE] ELSE is_active
        /\ UNCHANGED start_time
        /\ current_bucket' = t
        /\ danmakus' = [danmakus EXCEPT ![t] = DequeAppend(@, dm, bucket_capacity)]
        /\ routed' = IF ~add_switches THEN "same" ELSE IF activate THEN "new" ELSE "kept"
        /\ UNCHANGED is_consuming

add_danmaku(dm) ==
    LET t == add_target
        activate == add_switches /\ ~is_active[t]
    IN  /\ is_active' = IF activate THEN [is_active EXCEPT ![t] = TRUE] ELSE is_active
        /\ start_time' = IF activate THEN [start_time EXCEPT ![t] = now] ELSE start_time
        /\ current_bucket' = t
        /\ danmakus' = [danmakus EXCEPT ![t] = DequeAppend(@, dm, bucket_capacity)]
        /\ routed' = IF ~add_switches THEN "same" ELSE IF activate THEN "new" ELSE "kept"
        /\ UNCHANGED is_consuming

\* faulty variant: a bucket that is being consumed can be selected again
Expired_ignores_consuming(b, t, life) ==
    /\ is_active[b]
    /\ danmakus[b] # <<>>
    /\ (b = "B" => start_time[b] # NoTime)
    /\ t - start_time[b] > life

\* faulty variant: a bucket is selected as soon as its age reaches the lifetime
Expired_at_lifetime(b, t, life) ==
    /\ is_active[b]
    /\ ~is_consuming[b]
    /\ danmakus[b] # <<>>
    /\ (b = "B" => start_time[b] # NoTime)
    /\ t - start_time[b] >= life

\* the test of get_consumable_bucket on one bucket, at time t with lifetime life
Expired(b, t, life) ==
    /\ is_active[b]
    /\ ~is_consuming[b]
    /\ danmakus[b] # <<>>
    /\ (b = "B" => start_time[b] # NoTime)
    /\ t - start_time[b] > life

get_consumable_bucket_at(t, life) ==
    IF Expired("A", t, life) THEN "A"
    ELSE IF Expired("B", t, life) THEN "B"
    ELSE None

get_consumable_bucket == get_consumable_bucket_at(now, bucket_lifetime)

\* faulty variant: the newest content comes first
RECURSIVE Join_newest_first(_)
Join_newest_first(contents) ==
    IF contents = <<>> THEN ""
    ELSE IF Len(contents) = 1 THEN contents[1]
    ELSE Join_newest_first(Tail(contents)) \o "\n" \o contents[1]

\* '\n'.join(contents)
RECURSIVE Join(_)
Join(contents) ==
    IF contents = <<>> THEN ""
    ELSE IF Len(contents) = 1 THEN contents[1]
    ELSE contents[1] \o "\n" \o Join(Tail(contents))

\* get_merged_danmaku's None, as a record so that it compares with a merged message
NoMerge == [type |-> "None", content |-> "", danmu_type |-> "", count |-> 0]

\* get_merged_danmaku on the deque q of the bucket it is given
merged_danmaku(q) ==
    IF q = <<>> THEN NoMerge
    ELSE [type |-> "message",
          content |-> Join([i \in 1..Len(q) |-> q[i].content]),
          danmu_type |-> q[1].danmu_type,
          count |-> Len(q)]

\* faulty variant: a bucket with a single message merges to nothing
get_merged_danmaku_skips_single(b) ==
    IF Len(danmakus[b]) <= 1 THEN NoMerge ELSE merged_danmaku(danmakus[b])

get_merged_danmaku(b) == merged_danmaku(danmakus[b])

\* faulty variant: every bucket is marked
mark_bucket_consuming_marks_all(b) == [x \in Buckets |-> TRUE]

\* mark_bucket_consuming: the is_consuming flags afterwards
mark_bucket_consuming(b) == [is_consuming EXCEPT ![b] = TRUE]

\* faulty variant: the other bucket is activated without a new start_time
switch_bucket_keeps_start(consuming) ==
    LET c == current_bucket
        o == Other(current_bucket)
    IN  /\ is_active' = [is_active EXCEPT ![c] = FALSE, ![o] = TRUE]
        /\ is_consuming' = [consuming EXCEPT ![c] = FALSE]
        /\ danmakus' = [danmakus EXCEPT ![c] = <<>>]
        /\ UNCHANGED start_time
        /\ current_bucket' = o

\* faulty variant: the bucket is deactivated with its messages left in it
switch_bucket_keeps_messages(consuming) ==
    LET c == current_bucket
        o == Other(current_bucket)
    IN  /\ is_active' = [is_active EXCEPT ![c] = FALSE, ![o] = TRUE]
        /\ is_consuming' = [consuming EXCEPT ![c] = FALSE]
        /\ UNCHANGED danmakus
        /\ start_time' = IF c = "A" THEN [start_time EXCEPT !["B"] = now]
                         ELSE [start_time EXCEPT !["B"] = NoTime, !["A"] = now]
        /\ current_bucket' = o

\* faulty variant: the bucket that was marked is reset, whichever bucket is written to
switch_bucket_resets_marked(consuming) ==
    LET d == IF pc = "sending" THEN consumable_bucket ELSE get_consumable_bucket
        o == Other(d)
    IN  /\ is_consuming' = [consuming EXCEPT ![d] = FALSE]
        /\ danmakus' = [danmakus EXCEPT ![d] = <<>>]
        /\ IF current_bucket = d
           THEN /\ is_active' = [is_active EXCEPT ![d] = FALSE, ![o] = TRUE]
                /\ start_time' = [start_time EXCEPT ![o] = now]
                /\ current_bucket' = o
           ELSE /\ is_active' = [is_active EXCEPT ![d] = FALSE]
                /\ UNCHANGED <<start_time, current_bucket>>

\* switch_bucket, applied to the bucket fields as they are after consuming was marked
switch_bucket(consuming) ==
    LET c == current_bucket
        o == Other(current_bucket)
    IN  /\ is_active' = [is_active EXCEPT ![c] = FALSE, ![o] = TRUE]
        /\ is_consuming' = [consuming EXCEPT ![c] = FALSE]
        /\ danmakus' = [danmakus EXCEPT ![c] = <<>>]
        /\ start_time' = IF c = "A" THEN [start_time EXCEPT !["B"] = now]
                         ELSE [start_time EXCEPT !["B"] = NoTime, !["A"] = now]
        /\ current_bucket' = o

\* -------------------------------------------------------------- messages
\* the message consume_async hands to send_to_main_server; src: the contents merged
consume_message(b) ==
    [lane |-> "ordinary",
     content |-> get_merged_danmaku(b).content,
     danmu_type |-> get_merged_danmaku(b).danmu_type,
     src |-> {danmakus[b][i].content : i \in 1..Len(danmakus[b])}]

paid_consume_message(m) ==
    [lane |-> "paid", content |-> m.content, danmu_type |-> m.danmu_type,
     src |-> {m.content}]

\* ------------------------------------------------------- classification
is_paid_message(t) == t \in paid_types

\* PaidDanmakuQueue.put: the queue afterwards and the value returned
put(q, item) ==
    IF is_paid_message(item.danmu_type)
    THEN [queue |-> Append(q, item), ok |-> TRUE]
    ELSE [queue |-> q, ok |-> FALSE]

\* ------------------------------------------------------------- delivery
\* send_to_main_server as it starts, and as it ends when the main_server_* keys are
\* missing from the configuration (KeyError before the first POST)
send_start == [retry_count |-> 0, posts |-> 0, result |-> None]
send_keyerror == [retry_count |-> 0, posts |-> 0, result |-> "raised"]

\* faulty variant: an exception does not count towards the retries
post_forgets_retry(s, o) ==
    CASE o = "success" -> [s EXCEPT !.posts = @ + 1, !.result = "true"]
      [] o \in {"failure", "non200"} -> [s EXCEPT !.posts = @ + 1, !.result = "false"]
      [] o = "error" -> [s EXCEPT !.posts = @ + 1]

\* one pass of send_to_main_server's loop, the POST coming back with o;
\* result None: the call goes on to another pass
post(s, o) ==
    CASE o = "success" -> [s EXCEPT !.posts = @ + 1, !.result = "true"]
      [] o \in {"failure", "non200"} -> [s EXCEPT !.posts = @ + 1, !.result = "false"]
      [] o = "error" ->
            [s EXCEPT !.posts = @ + 1,
                      !.retry_count = @ + 1,
                      !.result = IF s.retry_count + 1 <= main_server_max_retry_count
                                 THEN None ELSE "raised"]

\* ----------------------------------------------------------- WebSocketManager
\* broadcast before its first call: n calls made so far, nothing in progress
bcast_start == [pc |-> "idle", n |-> 0, todo |-> {}, disconnected |-> {},
                before |-> {}, tried |-> {}, failed |-> {}]

\* ------------------------------------------------------------------- Init
Init ==
    /\ danmakus = [b \in Buckets |-> <<>>]
    /\ start_time = [b \in Buckets |-> IF b = "A" THEN 0 ELSE NoTime]
    /\ is_active = [b \in Buckets |-> b = "A"]
    /\ is_consuming = [b \in Buckets |-> FALSE]
    /\ current_bucket = "A"
    /\ paid_queue = <<>>
    /\ now = 0
    /\ pc = "sleep"
    /\ consumable_bucket = None
    /\ retry_count = 0
    /\ gate = [result |-> None, queries |-> 0, sleeps |-> 0, last |-> None]
    /\ ppc = "idle"
    /\ received = 0
    /\ received_paid = 0
    /\ delivered = <<>>
    /\ routed = None
    /\ send = [c \in Callers |-> send_start]
    /\ response = None
    /\ load = [added |-> FALSE, drained |-> None]
    /\ lock = [bucket |-> None, paid |-> None]
    /\ connections = {}
    /\ bcast = bcast_start
    /\ pushed = [w \in Sockets |-> {}]
    /\ owed = [w \in Sockets |-> {}]
    /\ main_server_configured \in BOOLEAN

\* the event loop is free to run another coroutine (can_consume is not running)
LoopFree == pc # "gate"

\* ---------------------------------------------------------------- actions
\* time passes
Tick ==
    /\ now < MaxTime
    /\ now' = now + 1
    /\ UNCHANGED <<bucket_vars, paid_queue, pc, consumable_bucket, retry_count, gate,
                   ppc, received, received_paid, delivered, routed, send, response,
                   main_server_configured>>

\* faulty variant: the type is not checked
receive_danmaku_unchecked(item) ==
    IF is_paid_message(item.danmu_type)
    THEN /\ paid_queue' = put(paid_queue, item).queue
         /\ response' = "success"
         /\ UNCHANGED <<bucket_vars, routed>>
    ELSE /\ add_danmaku(item)
         /\ response' = "success"
         /\ UNCHANGED paid_queue

\* faulty variant: a paid message is also added to the current bucket
receive_danmaku_stores_twice(item) ==
    IF item.danmu_type \notin supported_types
    THEN /\ response' = "400"
         /\ UNCHANGED <<bucket_vars, routed, paid_queue>>
    ELSE IF is_paid_message(item.danmu_type)
    THEN /\ paid_queue' = put(paid_queue, item).queue
         /\ add_danmaku(item)
         /\ response' = "success"
    ELSE /\ add_danmaku(item)
         /\ response' = "success"
         /\ UNCHANGED paid_queue

\* the handler receive_danmaku on one request: refuse an unsupported type, queue a paid
\* message, add any other to the buckets
receive_danmaku(item) ==
    IF item.danmu_type \notin supported_types
    THEN /\ response' = "400"
         /\ UNCHANGED <<bucket_vars, routed, paid_queue>>
    ELSE IF is_paid_message(item.danmu_type)
    THEN /\ paid_queue' = put(paid_queue, item).queue
         /\ response' = "success"
         /\ UNCHANGED <<bucket_vars, routed>>
    ELSE /\ add_danmaku(item)
         /\ response' = "success"
         /\ UNCHANGED paid_queue

\* a request with an ordinary message
ReceiveDanmaku ==
    /\ LoopFree
    /\ received < MaxDanmaku
    /\ received' = received + 1
    /\ receive_danmaku([content |-> DanmakuContent[received + 1], danmu_type |-> "danmaku"])
    /\ UNCHANGED <<now, pc, consumable_bucket, retry_count, gate, ppc, received_paid,
                   delivered, send, main_server_configured>>

\* a request with a paid message
ReceivePaid ==
    /\ LoopFree
    /\ received_paid < MaxPaid
    /\ received_paid' = received_paid + 1
    /\ receive_danmaku([content |-> PaidContent[received_paid + 1],
                        danmu_type |-> PaidKind[received_paid + 1]])
    /\ UNCHANGED <<now, pc, consumable_bucket, retry_count, gate, ppc, received,
                   delivered, send, main_server_configured>>

\* a request with a type the service does not support
ReceiveUnsupported ==
    /\ LoopFree
    /\ \E t \in UnsupportedTypes : receive_danmaku([content |-> "x", danmu_type |-> t])
    /\ UNCHANGED <<now, pc, consumable_bucket, retry_count, gate, ppc, received,
                   received_paid, delivered, send, main_server_configured>>

\* consume_async from the gate's admission to the next suspension point:
\* get_consumable_bucket, mark_bucket_consuming, get_merged_danmaku, send_to_main_server
Drain ==
    LET b == get_consumable_bucket
        marked == mark_bucket_consuming(b)
    IN  /\ consumable_bucket' = b
        /\ IF b = None
           THEN /\ pc' = "sleep"
                /\ UNCHANGED <<bucket_vars, delivered>>
           ELSE IF get_merged_danmaku(b) = NoMerge
           THEN /\ pc' = "sleep"
                /\ is_consuming' = marked
                /\ UNCHANGED <<danmakus, start_time, is_active, current_bucket, delivered>>
           ELSE /\ delivered' = Append(delivered, consume_message(b))
                /\ IF main_server_configured
                   THEN /\ pc' = "sending"
                        /\ is_consuming' = marked
                        /\ UNCHANGED <<danmakus, start_time, is_active, current_bucket>>
                   ELSE /\ pc' = "sleep"
                        /\ switch_bucket(marked)

\* faulty variant: the tick does not look at the paid queue
ConsumeTick_ignores_paid ==
    /\ pc = "sleep"
    /\ pc' = "gate"
    /\ retry_count' = 0
    /\ gate' = [result |-> None, queries |-> 0, sleeps |-> 0, last |-> None]
    /\ UNCHANGED <<bucket_vars, paid_queue, now, consumable_bucket, ppc, received,
                   received_paid, delivered, routed, send, response,
                   main_server_configured>>

\* faulty variant: the tick drains without asking can_consume
ConsumeTick_skips_gate ==
    /\ pc = "sleep"
    /\ paid_queue = <<>>
    /\ retry_count' = 0
    /\ gate' = [result |-> None, queries |-> 0, sleeps |-> 0, last |-> None]
    /\ Drain
    /\ UNCHANGED <<paid_queue, now, ppc, received, received_paid, routed, send, response,
                   main_server_configured>>

\* consume_async wakes from its sleep: skip when paid messages wait, else enter can_consume
ConsumeTick ==
    /\ pc = "sleep"
    /\ IF paid_queue # <<>>
       THEN UNCHANGED <<pc, retry_count, gate>>
       ELSE /\ pc' = "gate"
            /\ retry_count' = 0
            /\ gate' = [result |-> None, queries |-> 0, sleeps |-> 0, last |-> None]
    /\ UNCHANGED <<bucket_vars, paid_queue, now, consumable_bucket, ppc, received,
                   received_paid, delivered, routed, send, response,
                   main_server_configured>>

\* faulty variant: a refusal is taken for a failure and asked again
GateQuery_retries_refusal(r) ==
    /\ pc = "gate"
    /\ UNCHANGED <<paid_queue, now, ppc, received, received_paid, routed, send, response,
                   main_server_configured>>
    /\ CASE r = "ok_true" ->
              /\ gate' = [gate EXCEPT !.result = "true", !.queries = @ + 1, !.last = r]
              /\ UNCHANGED retry_count
              /\ Drain
         [] r = "nonobject" ->
              /\ gate' = [gate EXCEPT !.result = "raised", !.queries = @ + 1, !.last = r]
              /\ pc' = "dead"
              /\ UNCHANGED <<bucket_vars, consumable_bucket, retry_count, delivered>>
         [] r \in GateFailures \cup {"ok_false", "ok_noflag"} ->
              /\ retry_count' = retry_count + 1
              /\ IF retry_count + 1 <= max_retry_count
                 THEN /\ gate' = [gate EXCEPT !.queries = @ + 1, !.sleeps = @ + 1, !.last = r]
                      /\ UNCHANGED pc
                 ELSE /\ gate' = [gate EXCEPT !.result = "false", !.queries = @ + 1,
                                              !.sleeps = @ + 1, !.last = r]
                      /\ pc' = "sleep"
              /\ UNCHANGED <<bucket_vars, consumable_bucket, delivered>>

\* can_consume: one pass of its loop, with the response r to the GET
GateQuery(r) ==
    /\ pc = "gate"
    /\ UNCHANGED <<paid_queue, now, ppc, received, received_paid, routed, send, response,
                   main_server_configured>>
    /\ CASE r = "ok_true" ->
              /\ gate' = [gate EXCEPT !.result = "true", !.queries = @ + 1, !.last = r]
              /\ UNCHANGED retry_count
              /\ Drain
         [] r \in {"ok_false", "ok_noflag"} ->
              /\ gate' = [gate EXCEPT !.result = "false", !.queries = @ + 1, !.last = r]
              /\ pc' = "sleep"
              /\ UNCHANGED <<bucket_vars, consumable_bucket, retry_count, delivered>>
         [] r = "nonobject" ->
              /\ gate' = [gate EXCEPT !.result = "raised", !.queries = @ + 1, !.last = r]
              /\ pc' = "dead"
              /\ UNCHANGED <<bucket_vars, consumable_bucket, retry_count, delivered>>
         [] r \in GateFailures ->
              /\ retry_count' = retry_count + 1
              /\ IF retry_count + 1 <= max_retry_count
                 THEN /\ gate' = [gate EXCEPT !.queries = @ + 1, !.sleeps = @ + 1, !.last = r]
                      /\ UNCHANGED pc
                 ELSE /\ gate' = [gate EXCEPT !.result = "false", !.queries = @ + 1,
                                              !.sleeps = @ + 1, !.last = r]
                      /\ pc' = "sleep"
              /\ UNCHANGED <<bucket_vars, consumable_bucket, delivered>>

\* one POST of the send_to_main_server that consume_async awaits; when the call returns
\* or raises its locals are gone, and consume_async calls switch_bucket either way
DeliverFinish(o) ==
    /\ pc = "sending"
    /\ IF post(send["ordinary"], o).result = None
       THEN /\ send' = [send EXCEPT !["ordinary"] = post(@, o)]
            /\ UNCHANGED <<pc, bucket_vars>>
       ELSE /\ send' = [send EXCEPT !["ordinary"] = send_start]
            /\ pc' = "sleep"
            /\ switch_bucket(is_consuming)
    /\ UNCHANGED <<paid_queue, now, consumable_bucket, retry_count, gate, ppc, received,
                   received_paid, delivered, routed, response, main_server_configured>>

\* faulty variant: the priority loop waits while a bucket is being consumed
PaidDequeue_waits_for_bucket ==
    /\ LoopFree
    /\ ppc = "idle"
    /\ paid_queue # <<>>
    /\ \A b \in Buckets : ~is_consuming[b]
    /\ paid_queue' = Tail(paid_queue)
    /\ delivered' = Append(delivered, paid_consume_message(Head(paid_queue)))
    /\ ppc' = IF main_server_configured THEN "sending" ELSE "idle"
    /\ UNCHANGED <<bucket_vars, now, pc, consumable_bucket, retry_count, gate, received,
                   received_paid, routed, send, response, main_server_configured>>

\* faulty variant: the priority loop sends only after can_consume admitted
PaidDequeue_asks_gate ==
    /\ LoopFree
    /\ ppc = "idle"
    /\ paid_queue # <<>>
    /\ gate.result = "true"
    /\ paid_queue' = Tail(paid_queue)
    /\ delivered' = Append(delivered, paid_consume_message(Head(paid_queue)))
    /\ ppc' = IF main_server_configured THEN "sending" ELSE "idle"
    /\ UNCHANGED <<bucket_vars, now, pc, consumable_bucket, retry_count, gate, received,
                   received_paid, routed, send, response, main_server_configured>>

\* faulty variant: the queue is read from its newest end
PaidDequeue_takes_newest ==
    /\ LoopFree
    /\ ppc = "idle"
    /\ paid_queue # <<>>
    /\ paid_queue' = SubSeq(paid_queue, 1, Len(paid_queue) - 1)
    /\ delivered' = Append(delivered, paid_consume_message(paid_queue[Len(paid_queue)]))
    /\ ppc' = IF main_server_configured THEN "sending" ELSE "idle"
    /\ UNCHANGED <<bucket_vars, now, pc, consumable_bucket, retry_count, gate, received,
                   received_paid, routed, send, response, main_server_configured>>

\* process_danmaku_batch: get_paid_message and send_to_main_server up to its first POST
PaidDequeue ==
    /\ LoopFree
    /\ ppc = "idle"
    /\ paid_queue # <<>>
    /\ paid_queue' = Tail(paid_queue)
    /\ delivered' = Append(delivered, paid_consume_message(Head(paid_queue)))
    /\ ppc' = IF main_server_configured THEN "sending" ELSE "idle"
    /\ UNCHANGED <<bucket_vars, now, pc, consumable_bucket, retry_count, gate, received,
                   received_paid, routed, send, response, main_server_configured>>

\* faulty variant: a message whose delivery failed is put back
PaidFinish_requeues(o) ==
    /\ LoopFree
    /\ ppc = "sending"
    /\ IF post(send["paid"], o).result = None
       THEN /\ send' = [send EXCEPT !["paid"] = post(@, o)]
            /\ UNCHANGED <<ppc, paid_queue>>
       ELSE /\ send' = [send EXCEPT !["paid"] = send_start]
            /\ ppc' = "idle"
            /\ paid_queue' = IF post(send["paid"], o).result = "true" THEN paid_queue
                             ELSE Append(paid_queue,
                                         [content |-> delivered[Len(delivered)].content,
                                          danmu_type |-> delivered[Len(delivered)].danmu_type])
    /\ UNCHANGED <<bucket_vars, now, pc, consumable_bucket, retry_count, gate,
                   received, received_paid, delivered, routed, response,
                   main_server_configured>>

\* one POST of the send_to_main_server that process_danmaku_batch awaits
PaidFinish(o) ==
    /\ LoopFree
    /\ ppc = "sending"
    /\ IF post(send["paid"], o).result = None
       THEN /\ send' = [send EXCEPT !["paid"] = post(@, o)]
            /\ UNCHANGED ppc
       ELSE /\ send' = [send EXCEPT !["paid"] = send_start]
            /\ ppc' = "idle"
    /\ UNCHANGED <<bucket_vars, paid_queue, now, pc, consumable_bucket, retry_count, gate,
                   received, received_paid, delivered, routed, response,
                   main_server_configured>>

Next ==
    \/ Tick /\ UNCHANGED aux
    \/ ReceiveDanmaku /\ UNCHANGED aux
    \/ ReceivePaid /\ UNCHANGED aux
    \/ ReceiveUnsupported /\ UNCHANGED aux
    \/ ConsumeTick /\ UNCHANGED aux
    \/ \E r \in GateResponses : GateQuery(r) /\ UNCHANGED aux
    \/ \E o \in SendOutcomes : DeliverFinish(o) /\ UNCHANGED aux
    \/ PaidDequeue /\ UNCHANGED aux
    \/ \E o \in SendOutcomes : PaidFinish(o) /\ UNCHANGED aux

Spec == Init /\ [][Next]_vars

\* the same program under the scheduling the event loop gives: every loop keeps running,
\* time does not stop before MaxTime, a pending POST ends, and the gate answers a
\* well-formed "true" again and again
FairSpec ==
    /\ Spec
    /\ WF_vars(Tick /\ UNCHANGED aux)
    /\ WF_vars(ConsumeTick /\ UNCHANGED aux)
    /\ SF_vars(GateQuery("ok_true") /\ UNCHANGED aux)
    /\ WF_vars(\E o \in SendOutcomes : DeliverFinish(o) /\ UNCHANGED aux)
    /\ WF_vars(PaidDequeue /\ UNCHANGED aux)
    /\ WF_vars(\E o \in SendOutcomes : PaidFinish(o) /\ UNCHANGED aux)

\* send_to_main_server on its own: each caller calls it again and again, and every POST
\* comes back with any of the outcomes
SendCall(c) ==
    /\ send[c].result # None
    /\ send' = [send EXCEPT ![c] = send_start]
    /\ UNCHANGED <<bucket_vars, paid_queue, now, pc, consumable_bucket, retry_count, gate,
                   ppc, received, received_paid, delivered, routed, response,
                   main_server_configured>>

SendPass(c, o) ==
    /\ send[c].result = None
    /\ send' = [send EXCEPT ![c] = IF main_server_configured THEN post(@, o)
                                   ELSE send_keyerror]
    /\ UNCHANGED <<bucket_vars, paid_queue, now, pc, consumable_bucket, retry_count, gate,
                   ppc, received, received_paid, delivered, routed, response,
                   main_server_configured>>

SendNext ==
    \/ \E c \in Callers : SendCall(c) /\ UNCHANGED aux
    \/ \E c \in Callers, o \in SendOutcomes : SendPass(c, o) /\ UNCHANGED aux

SendSpec == Init /\ [][SendNext]_vars

\* the buckets under sustained load: the POST suspends, the gate admits, and a drain
\* begins or ends only after an add came since the last drain began or ended
LoadAdd ==
    /\ LoopFree
    /\ received < MaxLoad
    /\ received' = received + 1
    /\ receive_danmaku([content |-> DanmakuContent[received + 1], danmu_type |-> "danmaku"])
    /\ load' = [load EXCEPT !.added = TRUE]
    /\ UNCHANGED <<lock, ws_vars>>
    /\ UNCHANGED <<now, pc, consumable_bucket, retry_count, gate, ppc, received_paid,
                   delivered, send, main_server_configured>>

LoadDrainBegin ==
    /\ GateQuery("ok_true")
    /\ UNCHANGED <<lock, ws_vars>>
    /\ IF pc' = "sending"
       THEN /\ load.added
            /\ load' = [added |-> FALSE, drained |-> consumable_bucket']
       ELSE UNCHANGED load

LoadDrainEnd(o) ==
    /\ DeliverFinish(o)
    /\ UNCHANGED <<lock, ws_vars>>
    /\ IF pc' = "sleep"
       THEN /\ load.added
            /\ load' = [load EXCEPT !.added = FALSE]
       ELSE UNCHANGED load

LoadNext ==
    \/ LoadAdd
    \/ Tick /\ UNCHANGED aux
    \/ ConsumeTick /\ UNCHANGED aux
    \/ LoadDrainBegin
    \/ \E o \in SendOutcomes : LoadDrainEnd(o)

LoadInit == Init /\ main_server_configured = TRUE

LoadSpec == LoadInit /\ [][LoadNext]_vars

\* ----------------------------------------------------- websocket subscribers
\* all that the websocket actions leave as it is
ws_frame == <<bucket_vars, paid_queue, now, pc, consumable_bucket, retry_count, gate, ppc,
              received, received_paid, delivered, routed, send, response, load, lock,
              main_server_configured>>

\* WebSocketManager.connect and disconnect: they wait for the manager's lock, which
\* broadcast holds from its first send to its end
connect(w) ==
    /\ bcast.pc = "idle"
    /\ w \notin connections
    /\ connections' = connections \cup {w}
    /\ UNCHANGED <<bcast, pushed, owed, ws_frame>>

disconnect(w) ==
    /\ bcast.pc = "idle"
    /\ w \in connections
    /\ connections' = connections \ {w}
    /\ owed' = [owed EXCEPT ![w] = {}]
    /\ UNCHANGED <<bcast, pushed, ws_frame>>

\* broadcast(message) is called: return at once when nobody is subscribed, else take
\* the lock and go through the connections
BroadcastBegin ==
    /\ bcast.pc = "idle"
    /\ bcast.n < MaxBroadcasts
    /\ bcast' = IF connections = {}
                THEN [bcast_start EXCEPT !.n = bcast.n + 1]
                ELSE [pc |-> "sending", n |-> bcast.n, todo |-> connections,
                      disconnected |-> {}, before |-> connections, tried |-> {},
                      failed |-> {}]
    /\ UNCHANGED <<connections, pushed, owed, ws_frame>>

\* faulty variant: the first websocket whose send fails ends the loop
BroadcastSend_stops_at_failure(w, o) ==
    /\ bcast.pc = "sending"
    /\ w \in bcast.todo
    /\ bcast' = [bcast EXCEPT !.todo = IF o = "ok" THEN @ \ {w} ELSE {},
                              !.tried = @ \cup {w},
                              !.disconnected = IF o = "ok" THEN @ ELSE @ \cup {w},
                              !.failed = IF o = "ok" THEN @ ELSE @ \cup {w}]
    /\ pushed' = IF o = "ok" THEN [pushed EXCEPT ![w] = @ \cup {bcast.n + 1}] ELSE pushed
    /\ UNCHANGED <<connections, owed, ws_frame>>

\* one pass of broadcast's loop: websocket.send to w ends with o; ConnectionClosed and
\* any other exception put w into disconnected
BroadcastSend(w, o) ==
    /\ bcast.pc = "sending"
    /\ w \in bcast.todo
    /\ bcast' = [bcast EXCEPT !.todo = @ \ {w},
                              !.tried = @ \cup {w},
                              !.disconnected = IF o \in {"closed", "error"}
                                               THEN @ \cup {w} ELSE @,
                              !.failed = IF o = "ok" THEN @ ELSE @ \cup {w}]
    /\ pushed' = IF o = "ok" THEN [pushed EXCEPT ![w] = @ \cup {bcast.n + 1}] ELSE pushed
    /\ UNCHANGED <<connections, owed, ws_frame>>

\* the loop is over: discard the disconnected, release the lock
BroadcastEnd ==
    /\ bcast.pc = "sending"
    /\ bcast.todo = {}
    /\ connections' = connections \ bcast.disconnected
    /\ bcast' = [bcast EXCEPT !.pc = "idle", !.n = @ + 1]
    /\ UNCHANGED <<pushed, owed, ws_frame>>

BroadcastNext ==
    \/ \E w \in Sockets : connect(w)
    \/ \E w \in Sockets : disconnect(w)
    \/ BroadcastBegin
    \/ \E w \in Sockets, o \in WsOutcomes : BroadcastSend(w, o)
    \/ BroadcastEnd

\* broadcast on its own, called again and again while websockets come and go
BroadcastSpec == Init /\ [][BroadcastNext]_vars

\* a websocket subscribed when a message is handed to send_to_main_server is owed it
Owes ==
    owed' = IF Len(delivered') > Len(delivered)
            THEN [w \in Sockets |->
                     IF w \in connections
                     THEN owed[w] \cup {delivered'[Len(delivered')].content}
                     ELSE owed[w]]
            ELSE owed

fan_frame == <<load, lock, connections, bcast, pushed>>

\* the two loops and the handler while websockets subscribe: neither loop calls broadcast
FanNext ==
    \/ \E w \in Sockets : connect(w)
    \/ \E w \in Sockets : disconnect(w)
    \/ Tick /\ UNCHANGED aux
    \/ ReceiveDanmaku /\ UNCHANGED aux
    \/ ReceivePaid /\ UNCHANGED aux
    \/ ConsumeTick /\ UNCHANGED aux
    \/ GateQuery("ok_true") /\ Owes /\ UNCHANGED fan_frame
    \/ \E o \in SendOutcomes : DeliverFinish(o) /\ UNCHANGED aux
    \/ PaidDequeue /\ Owes /\ UNCHANGED fan_frame
    \/ \E o \in SendOutcomes : PaidFinish(o) /\ UNCHANGED aux

FanSpec == Init /\ [][FanNext]_vars

\* ------------------------------------------------------------------ locks
\* the two loops call by call: a method of bucket_system or danmaku_queue takes its lock
\* on entry and gives it back when it returns.  Between two suspension points only the
\* running coroutine takes steps.
lock_frame == <<load, ws_vars, main_server_configured, now, received, received_paid,
                routed, response, retry_count>>

\* no loop is between two suspension points
Suspended == pc \in {"sleep", "sending", "dead"} /\ ppc \in {"idle", "sending"}

\* can_consume returned True: consume_async enters get_consumable_bucket
LockSelectEnter ==
    /\ pc = "gate"
    /\ lock.bucket = None
    /\ lock' = [lock EXCEPT !.bucket = "consume_async"]
    /\ gate' = [gate EXCEPT !.result = "true", !.queries = @ + 1, !.last = "ok_true"]
    /\ pc' = "in_select"
    /\ UNCHANGED <<bucket_vars, paid_queue, consumable_bucket, ppc, delivered, send,
                   lock_frame>>

\* get_consumable_bucket returns
LockSelectExit ==
    /\ pc = "in_select"
    /\ lock' = [lock EXCEPT !.bucket = None]
    /\ consumable_bucket' = get_consumable_bucket
    /\ pc' = IF get_consumable_bucket = None THEN "sleep" ELSE "selected"
    /\ UNCHANGED <<bucket_vars, paid_queue, gate, ppc, delivered, send, lock_frame>>

\* mark_bucket_consuming is entered and sets the flag
LockMarkEnter ==
    /\ pc = "selected"
    /\ lock.bucket = None
    /\ lock' = [lock EXCEPT !.bucket = "consume_async"]
    /\ is_consuming' = mark_bucket_consuming(consumable_bucket)
    /\ pc' = "in_mark"
    /\ UNCHANGED <<danmakus, start_time, is_active, current_bucket, paid_queue,
                   consumable_bucket, gate, ppc, delivered, send, lock_frame>>

\* mark_bucket_consuming returns
LockMarkExit ==
    /\ pc = "in_mark"
    /\ lock' = [lock EXCEPT !.bucket = None]
    /\ pc' = "marked"
    /\ UNCHANGED <<bucket_vars, paid_queue, consumable_bucket, gate, ppc, delivered,
                   send, lock_frame>>

\* get_merged_danmaku is entered
LockMergeEnter ==
    /\ pc = "marked"
    /\ lock.bucket = None
    /\ lock' = [lock EXCEPT !.bucket = "consume_async"]
    /\ pc' = "in_merge"
    /\ UNCHANGED <<bucket_vars, paid_queue, consumable_bucket, gate, ppc, delivered,
                   send, lock_frame>>

\* faulty variant: get_merged_danmaku returns with the lock still held
LockMergeExit_keeps_lock ==
    /\ pc = "in_merge"
    /\ UNCHANGED lock
    /\ IF get_merged_danmaku(consumable_bucket) = NoMerge
       THEN pc' = "sleep" /\ UNCHANGED delivered
       ELSE /\ delivered' = Append(delivered, consume_message(consumable_bucket))
            /\ pc' = IF main_server_configured THEN "sending" ELSE "returned"
    /\ UNCHANGED <<bucket_vars, paid_queue, consumable_bucket, gate, ppc, send,
                   lock_frame>>

\* get_merged_danmaku returns; consume_async builds the message and calls
\* send_to_main_server, which suspends on its POST or raises at once
LockMergeExit ==
    /\ pc = "in_merge"
    /\ lock' = [lock EXCEPT !.bucket = None]
    /\ IF get_merged_danmaku(consumable_bucket) = NoMerge
       THEN pc' = "sleep" /\ UNCHANGED delivered
       ELSE /\ delivered' = Append(delivered, consume_message(consumable_bucket))
            /\ pc' = IF main_server_configured THEN "sending" ELSE "returned"
    /\ UNCHANGED <<bucket_vars, paid_queue, consumable_bucket, gate, ppc, send,
                   lock_frame>>

\* one POST of the send_to_main_server that consume_async awaits
LockPost(o) ==
    /\ pc = "sending"
    /\ ppc \in {"idle", "sending"}
    /\ send' = [send EXCEPT !["ordinary"] =
                   IF post(@, o).result = None THEN post(@, o) ELSE send_start]
    /\ pc' = IF post(send["ordinary"], o).result = None THEN "sending" ELSE "returned"
    /\ UNCHANGED <<bucket_vars, paid_queue, consumable_bucket, gate, ppc, delivered, lock,
                   lock_frame>>

\* send_to_main_server returned or raised: switch_bucket is entered and does its work
LockSwitchEnter ==
    /\ pc = "returned"
    /\ lock.bucket = None
    /\ lock' = [lock EXCEPT !.bucket = "consume_async"]
    /\ switch_bucket(is_consuming)
    /\ pc' = "in_switch"
    /\ UNCHANGED <<paid_queue, consumable_bucket, gate, ppc, delivered, send, lock_frame>>

\* switch_bucket returns and consume_async goes to sleep
LockSwitchExit ==
    /\ pc = "in_switch"
    /\ lock' = [lock EXCEPT !.bucket = None]
    /\ pc' = "sleep"
    /\ UNCHANGED <<bucket_vars, paid_queue, consumable_bucket, gate, ppc, delivered,
                   send, lock_frame>>

\* process_danmaku_batch enters get_paid_message
LockGetEnter ==
    /\ Suspended
    /\ ppc = "idle"
    /\ paid_queue # <<>>
    /\ lock.paid = None
    /\ lock' = [lock EXCEPT !.paid = "process_danmaku_batch"]
    /\ ppc' = "in_get"
    /\ UNCHANGED <<bucket_vars, paid_queue, pc, consumable_bucket, gate, delivered, send,
                   lock_frame>>

\* get_paid_message returns the head; process_danmaku_batch builds the message and calls
\* send_to_main_server
LockGetExit ==
    /\ ppc = "in_get"
    /\ lock' = [lock EXCEPT !.paid = None]
    /\ paid_queue' = Tail(paid_queue)
    /\ delivered' = Append(delivered, paid_consume_message(Head(paid_queue)))
    /\ ppc' = IF main_server_configured THEN "sending" ELSE "idle"
    /\ UNCHANGED <<bucket_vars, pc, consumable_bucket, gate, send, lock_frame>>

LockNext ==
    \/ Tick /\ UNCHANGED aux
    \/ Suspended /\ ReceiveDanmaku /\ UNCHANGED aux
    \/ Suspended /\ ReceivePaid /\ UNCHANGED aux
    \/ Suspended /\ ConsumeTick /\ UNCHANGED aux
    \/ LockSelectEnter
    \/ LockSelectExit
    \/ LockMarkEnter
    \/ LockMarkExit
    \/ LockMergeEnter
    \/ LockMergeExit
    \/ \E o \in SendOutcomes : LockPost(o)
    \/ LockSwitchEnter
    \/ LockSwitchExit
    \/ LockGetEnter
    \/ LockGetExit
    \/ \E o \in SendOutcomes : Suspended /\ PaidFinish(o) /\ UNCHANGED aux

LockSpec == Init /\ [][LockNext]_vars

\* the scheduling alone, with nothing assumed of the gate's answers: every GET and every
\* POST comes back, and the priority loop keeps running
LoopFairSpec ==
    /\ Spec
    /\ WF_vars(\E r \in GateResponses : GateQuery(r) /\ UNCHANGED aux)
    /\ WF_vars(\E o \in SendOutcomes : DeliverFinish(o) /\ UNCHANGED aux)
    /\ WF_vars(PaidDequeue /\ UNCHANGED aux)
    /\ WF_vars(\E o \in SendOutcomes : PaidFinish(o) /\ UNCHANGED aux)

\* ----------------------------------------------------------------- claims
\* the contents held in the two buckets, and the contents that were in a merge handed
\* to send_to_main_server
Held == UNION {{danmakus[b][i].content : i \in 1..Len(danmakus[b])} : b \in Buckets}

OrdinaryDeliveries == {i \in 1..Len(delivered) : delivered[i].lane = "ordinary"}

Merged == UNION {delivered[i].src : i \in OrdinaryDeliveries}

AddStep == received' = received + 1

\* the step hands an ordinary batch to send_to_main_server
OrdinaryDeliveryStep ==
    /\ Len(delivered') = Len(delivered) + 1
    /\ delivered'[Len(delivered')].lane = "ordinary"

\* C1: no loss across the switch. A message leaves the buckets only by the capacity
\* bound's eviction in an add, or after it was in a merge handed to the delivery
\* operation; a message added while a bucket is being consumed is never cleared unmerged.
C1_NoLoss ==
    [][\A m \in Held : m \notin Held' => (AddStep \/ m \in Merged')]_vars

\* C2: no duplication across the switch. Each message is in at most one of the merges
\* handed to the delivery operation.
C2_NoDuplication ==
    \A i, j \in OrdinaryDeliveries : i # j => delivered[i].src \cap delivered[j].src = {}

\* two batches were delivered, adds were routed on a switch, and a bucket still holds
\* content that was already delivered
C2_Witness ==
    /\ Cardinality(OrdinaryDeliveries) >= 2
    /\ routed \in {"new", "kept"}
    /\ Held \cap Merged # {}

\* C3: routing during a drain. An add while the current bucket is being consumed makes
\* the other bucket the current one, activates it with start_time = now only if it was
\* inactive (an active one keeps its start_time) and appends to it; an add while the
\* current bucket is not being consumed appends to it and changes nothing else.
C3_Routing ==
    [][AddStep =>
        LET c == current_bucket
            o == Other(current_bucket)
            dm == [content |-> DanmakuContent[received'], danmu_type |-> "danmaku"]
        IN  IF is_consuming[c]
            THEN /\ current_bucket' = o
                 /\ is_active' = [is_active EXCEPT ![o] = TRUE]
                 /\ start_time' = IF is_active[o] THEN start_time
                                  ELSE [start_time EXCEPT ![o] = now]
                 /\ danmakus' = [danmakus EXCEPT ![o] = DequeAppend(@, dm, bucket_capacity)]
                 /\ is_consuming' = is_consuming
            ELSE /\ current_bucket' = c
                 /\ danmakus' = [danmakus EXCEPT ![c] = DequeAppend(@, dm, bucket_capacity)]
                 /\ UNCHANGED <<is_active, start_time, is_consuming>>]_vars

\* an add was routed to the other bucket, which was active already and kept an older
\* start_time
C3_Witness ==
    /\ routed = "kept"
    /\ is_consuming[Other(current_bucket)]
    /\ start_time[current_bucket] < now
    /\ danmakus[current_bucket] # <<>>

\* C4: write availability. Every add appends to a bucket that is not being consumed at
\* the moment of the append.
C4_WriteAvailability ==
    [][AddStep => ~is_consuming'[current_bucket']]_vars

\* C5: capacity bound. A bucket never holds more than bucket_capacity messages, and an
\* add to a full bucket drops exactly its oldest message, keeps the others in order and
\* puts the new one at the tail.
C5_CapacityBound ==
    /\ [](\A b \in Buckets : Len(danmakus[b]) <= bucket_capacity)
    /\ [][AddStep =>
            LET t == current_bucket'
                dm == [content |-> DanmakuContent[received'], danmu_type |-> "danmaku"]
            IN  /\ Len(danmakus[t]) = bucket_capacity =>
                      danmakus'[t] = Append(Tail(danmakus[t]), dm)
                /\ Len(danmakus[t]) < bucket_capacity =>
                      danmakus'[t] = Append(danmakus[t], dm)]_vars

\* a full bucket whose oldest message was evicted: nothing was delivered, so nothing
\* was cleared
C5_Witness ==
    /\ delivered = <<>>
    /\ \E b \in Buckets :
          /\ Len(danmakus[b]) = bucket_capacity
          /\ danmakus[b][1].content = DanmakuContent[2]
          /\ received = bucket_capacity + 1

\* the bucket of the scenario: activated at 0, holding one message
C6_ScenarioSlot ==
    /\ is_active["A"]
    /\ ~is_consuming["A"]
    /\ start_time["A"] = 0
    /\ Len(danmakus["A"]) = 1

\* C6: a bucket is never selected at a time now with now - start_time <= lifetime.
\* With lifetime 2 and one message in a bucket activated at 0 the selection at time 1
\* is None and the selection at time 3 is that bucket.
C6_NotBeforeLifetime ==
    /\ \A t \in 0..MaxTime :
          LET r == get_consumable_bucket_at(t, bucket_lifetime)
          IN  r # None => t - start_time[r] > bucket_lifetime
    /\ pc = "sending" => now - start_time[consumable_bucket] > bucket_lifetime
    /\ C6_ScenarioSlot =>
          /\ get_consumable_bucket_at(1, 2) = None
          /\ get_consumable_bucket_at(3, 2) = "A"

\* the scenario's bucket was selected at time 3 and is being delivered
C6_Witness ==
    /\ pc = "sending"
    /\ consumable_bucket = "A"
    /\ now = 3
    /\ start_time["A"] = 0
    /\ Len(danmakus["A"]) = 1
    /\ bucket_lifetime = 2

\* C7: liveness of selection. A bucket that is active, non-empty, not being consumed
\* and older than the lifetime is returned by some later get_consumable_bucket (the
\* ordinary loop being alive).
C7_SelectionLiveness ==
    \A b \in Buckets :
        [](Expired(b, now, bucket_lifetime) =>
              <>(consumable_bucket = b \/ pc = "dead"))

\* C8: priority before ordinary. No ordinary batch is handed to the delivery operation
\* in a step that starts with a paid message waiting in the paid queue.
C8_PriorityFirst ==
    [][OrdinaryDeliveryStep => paid_queue = <<>>]_vars

\* a paid message was handed to delivery while a drainable batch was waiting, and no
\* ordinary batch has been delivered before it
C8_Witness ==
    /\ Len(delivered) = 1
    /\ delivered[1].lane = "paid"
    /\ get_consumable_bucket # None
    /\ pc = "sleep"

\* C9: fail-closed gate. A can_consume call whose every response was a failure ends
\* returning false after at most max_retry_count + 1 queries, and a call returns true
\* only on a 200 response whose flag is true.
C9_FailClosed ==
    /\ (gate.result # None /\ gate.last \notin {"ok_true", "ok_false", "ok_noflag"}) =>
          (gate.result = "false" /\ gate.queries <= max_retry_count + 1)
    /\ gate.result = "true" => gate.last = "ok_true"

\* C10: bounded gate blocking. One can_consume call sleeps retry_interval at most
\* max_retry_count times.
C10_BoundedSleeps ==
    gate.sleeps <= max_retry_count

\* the step that hands a paid message to send_to_main_server
PaidDeliveryStep ==
    /\ Len(delivered') = Len(delivered) + 1
    /\ delivered'[Len(delivered')].lane = "paid"

\* C11: the priority loop needs no admission: whenever a paid message waits and the loop
\* is at its poll it can take the message, whatever can_consume answered last; the step
\* that hands the message over takes the head of the queue, asks the gate nothing and
\* leaves the buckets as they are
C11_GateIndependence ==
    /\ [](paid_queue # <<>> /\ ppc = "idle" /\ LoopFree => ENABLED PaidDequeue)
    /\ [][PaidDeliveryStep =>
            /\ delivered'[Len(delivered')].content = Head(paid_queue).content
            /\ paid_queue' = Tail(paid_queue)
            /\ UNCHANGED <<bucket_vars, gate, retry_count, pc, consumable_bucket>>]_vars

\* the gate refused, a full bucket is drainable and still held, and the paid message that
\* came in has been handed over
C11_Witness ==
    /\ gate.result = "false"
    /\ gate.last \in {"ok_false", "ok_noflag"}
    /\ get_consumable_bucket # None
    /\ Len(danmakus[current_bucket]) = bucket_capacity
    /\ OrdinaryDeliveries = {}
    /\ received_paid = 1
    /\ paid_queue = <<>>
    /\ delivered # <<>>

\* a step that marks a bucket as being consumed
MarkStep == \E b \in Buckets : ~is_consuming[b] /\ is_consuming'[b]

\* C12: a bucket is marked and its merge handed over only in the step in which
\* can_consume returns true; a pass of can_consume that does not return true leaves
\* buckets, queue, selection and deliveries unchanged
C12_OrdinaryGated ==
    [][/\ (MarkStep \/ OrdinaryDeliveryStep) => (pc = "gate" /\ gate'.result = "true")
       /\ (pc = "gate" /\ gate'.result # "true") =>
             UNCHANGED <<bucket_vars, paid_queue, consumable_bucket, delivered>>]_vars

\* can_consume gave up after its retries while a bucket was drainable: nothing delivered
C12_Witness ==
    /\ gate.result = "false"
    /\ gate.last \in GateFailures
    /\ pc = "sleep"
    /\ get_consumable_bucket # None
    /\ delivered = <<>>

\* the contents joined from the newest end backwards
RECURSIVE JoinFromRight(_)
JoinFromRight(q) ==
    IF Len(q) = 1 THEN q[1]
    ELSE JoinFromRight(SubSeq(q, 1, Len(q) - 1)) \o "\n" \o q[Len(q)]

\* the deque of capacity 3 after a, b, c, d were appended
ScenarioDeque ==
    LET m(c) == [content |-> c, danmu_type |-> "danmaku"]
    IN  DequeAppend(DequeAppend(DequeAppend(DequeAppend(<<>>, m("a"), 3), m("b"), 3),
                                m("c"), 3), m("d"), 3)

\* C13: the merge of a bucket is nothing when the bucket is empty; else its content is the
\* held contents in order with one newline between neighbours, its count the number held
\* and its danmu_type that of the first held; capacity 3 with a, b, c, d gives "b\nc\nd"
\* with count 3, and a deque that starts with a gift is tagged "gift"
C13_MergeResult ==
    /\ \A b \in Buckets :
          LET q == danmakus[b]
              m == get_merged_danmaku(b)
          IN  IF q = <<>> THEN m = NoMerge
              ELSE /\ m.type = "message"
                   /\ m.count = Len(q)
                   /\ m.danmu_type = q[1].danmu_type
                   /\ m.content = JoinFromRight([i \in 1..Len(q) |-> q[i].content])
    /\ merged_danmaku(ScenarioDeque).content = "b\nc\nd"
    /\ merged_danmaku(ScenarioDeque).count = 3
    /\ merged_danmaku(ScenarioDeque).danmu_type = "danmaku"
    /\ merged_danmaku(<<[content |-> "p", danmu_type |-> "gift"],
                        [content |-> "a", danmu_type |-> "danmaku"]>>)
          = [type |-> "message", content |-> "p\na", danmu_type |-> "gift", count |-> 2]

\* a full bucket whose oldest message was evicted, merged
C13_Witness ==
    \E b \in Buckets :
        /\ Len(danmakus[b]) = bucket_capacity
        /\ danmakus[b][1].content # "a"
        /\ delivered # <<>>
        /\ delivered[Len(delivered)].lane = "ordinary"
        /\ delivered[Len(delivered)].content = get_merged_danmaku(b).content
        /\ is_consuming[b]

\* the paid messages handed to send_to_main_server, in the order they were handed over
IsPaidDelivery(d) == d.lane = "paid"

PaidDeliveries == SelectSeq(delivered, IsPaidDelivery)

\* C14: the paid messages are handed over in the order they were queued: the i-th one
\* handed over is the i-th one received
C14_PriorityFIFO ==
    \A i \in 1..Len(PaidDeliveries) : PaidDeliveries[i].content = PaidContent[i]

\* two paid messages handed over, the second one in its last retry
C14_Witness ==
    /\ Len(PaidDeliveries) = 2
    /\ ppc = "sending"
    /\ send["paid"].retry_count = main_server_max_retry_count

\* C15: every paid message received is handed to send_to_main_server, alone, at some
\* later time
C15_PaidLiveness ==
    \A k \in 1..MaxPaid :
        (received_paid >= k) ~>
            (\E i \in 1..Len(delivered) :
                /\ delivered[i].lane = "paid"
                /\ delivered[i].content = PaidContent[k]
                /\ delivered[i].src = {PaidContent[k]})

\* a paid message was handed over while a bucket is being consumed and its POST pending
C15_Witness ==
    /\ pc = "sending"
    /\ \E b \in Buckets : is_consuming[b]
    /\ paid_queue = <<>>
    /\ delivered # <<>>
    /\ delivered[Len(delivered)].lane = "paid"

\* C16: send_to_main_server reports a failure (returns False or raises) only after
\* main_server_max_retry_count + 1 POSTs
C16_RetryBeforeFailure ==
    \A c \in Callers :
        send[c].result \in {"false", "raised"} =>
            send[c].posts = main_server_max_retry_count + 1

\* C17: a call of send_to_main_server makes at most main_server_max_retry_count + 1
\* POSTs, and every pass of its loop ends the call or counts one more POST
C17_BoundedDelivery ==
    /\ [](\A c \in Callers : send[c].posts <= main_server_max_retry_count + 1)
    /\ [][\A c \in Callers :
            (send[c].result = None /\ send'[c] # send[c]) =>
                \/ send'[c].result # None
                \/ send'[c].posts = send[c].posts + 1]_vars

\* a call that raised after every POST failed
C17_Witness ==
    \E c \in Callers :
        /\ send[c].result = "raised"
        /\ send[c].posts = main_server_max_retry_count + 1
        /\ send[c].retry_count = main_server_max_retry_count + 1

\* C18: a bucket marked as being consumed is later unmarked and empty, as long as
\* consume_async is alive
C18_EventuallyReset ==
    \A b \in Buckets :
        is_consuming[b] ~> ((~is_consuming[b] /\ danmakus[b] = <<>>) \/ pc = "dead")

\* everything receive_danmaku or the loops can change, but the answer to the request
all_but_response ==
    <<bucket_vars, paid_queue, now, pc, consumable_bucket, retry_count, gate, ppc,
      received, received_paid, delivered, routed, send, main_server_configured>>

\* C19: no message of an unsupported type is ever stored or delivered, and the step that
\* answers 400 changes nothing else
C19_IngestionValidation ==
    /\ [](/\ \A b \in Buckets : \A i \in 1..Len(danmakus[b]) :
                danmakus[b][i].danmu_type \in {"danmaku", "super_chat", "gift", "buy_guard"}
          /\ \A i \in 1..Len(paid_queue) :
                paid_queue[i].danmu_type \in {"danmaku", "super_chat", "gift", "buy_guard"}
          /\ \A i \in 1..Len(delivered) :
                delivered[i].danmu_type \in {"danmaku", "super_chat", "gift", "buy_guard"})
    /\ [][(response' = "400" /\ response # "400") => UNCHANGED all_but_response]_vars

\* a request was refused while both lanes held messages
C19_Witness ==
    /\ response = "400"
    /\ Held # {}
    /\ paid_queue # <<>>

\* C20: the paid queue holds paid messages only and the buckets none; a request that is
\* accepted grows one lane by its message and leaves the other alone; put on a message
\* that is not paid returns False and leaves the queue as it is
C20_Classification ==
    /\ [](/\ \A i \in 1..Len(paid_queue) :
                paid_queue[i].danmu_type \in {"super_chat", "gift", "buy_guard"}
          /\ \A b \in Buckets : \A i \in 1..Len(danmakus[b]) :
                danmakus[b][i].danmu_type \notin {"super_chat", "gift", "buy_guard"}
          /\ put(paid_queue, [content |-> "x", danmu_type |-> "danmaku"])
                = [queue |-> paid_queue, ok |-> FALSE])
    /\ [][/\ received' = received + 1 =>
                /\ paid_queue' = paid_queue
                /\ danmakus'[current_bucket'][Len(danmakus'[current_bucket'])].content
                      = DanmakuContent[received']
          /\ received_paid' = received_paid + 1 =>
                /\ paid_queue' = Append(paid_queue, [content |-> PaidContent[received_paid'],
                                                     danmu_type |-> PaidKind[received_paid']])
                /\ UNCHANGED bucket_vars]_vars

\* both lanes hold messages, the queue two of them
C20_Witness ==
    /\ Len(paid_queue) = 2
    /\ Held # {}
    /\ response = "success"

\* the step in which consume_async calls switch_bucket, after send_to_main_server returned
\* or raised (at once, when the configuration lacks its keys); the bucket that was marked
\* and merged is then consumable_bucket'
CompleteDrainStep ==
    \/ pc = "sending" /\ pc' = "sleep"
    \/ pc = "gate" /\ pc' = "sleep" /\ OrdinaryDeliveryStep

\* C21: switch_bucket empties, deactivates and unmarks the bucket that was drained and
\* leaves the messages of the other bucket where they are
C21_DrainedSlotOnly ==
    [][CompleteDrainStep =>
          LET d == consumable_bucket'
          IN  /\ danmakus'[d] = <<>>
              /\ ~is_active'[d]
              /\ ~is_consuming'[d]
              /\ danmakus'[Other(d)] = danmakus[Other(d)]]_vars

\* C22: when the other bucket already is the write target at switch_bucket it keeps its
\* start_time and stays the write target; else it becomes the write target with
\* start_time = now
C22_FreshActivationOnlyIfNotLive ==
    [][CompleteDrainStep =>
          LET o == Other(consumable_bucket')
          IN  /\ current_bucket' = o
              /\ is_active'[o]
              /\ start_time'[o] = IF current_bucket = o THEN start_time[o] ELSE now]_vars

\* C23: at most one bucket is marked as being consumed
C23_SingleDraining == Cardinality({b \in Buckets : is_consuming[b]}) <= 1

\* C24: under sustained load a drain that begins takes the bucket the last drain did not
\* take, and an add that comes during a drain does not go to the bucket being drained
C24_StrictAlternation ==
    [][/\ (pc = "gate" /\ pc' = "sending" /\ load.drained # None) =>
             consumable_bucket' # load.drained
       /\ (AddStep /\ pc = "sending") => current_bucket' # consumable_bucket]_vars

\* the reference for the test on one bucket
RefExpired(b) ==
    /\ is_active[b] = TRUE
    /\ is_consuming[b] = FALSE
    /\ Len(danmakus[b]) > 0
    /\ start_time[b] # NoTime
    /\ now - start_time[b] > bucket_lifetime

\* C25: get_consumable_bucket is A when A is active, not being consumed, not empty and
\* older than the lifetime, else B under the same test, else nothing; a bucket that is
\* inactive or being consumed is never the answer
C25_SelectReference ==
    /\ get_consumable_bucket =
          IF RefExpired("A") THEN "A" ELSE IF RefExpired("B") THEN "B" ELSE None
    /\ get_consumable_bucket \in Buckets =>
          (is_active[get_consumable_bucket] /\ ~is_consuming[get_consumable_bucket])

\* A is old enough and holds a message but is being consumed: the answer is B
C25_Witness ==
    /\ get_consumable_bucket = "B"
    /\ is_consuming["A"]
    /\ danmakus["A"] # <<>>
    /\ now - start_time["A"] > bucket_lifetime

\* C26: the step that selects, marks and merges a bucket and goes on to the POST sets the
\* is_consuming flag of that bucket and changes no other bucket field
C26_NarrowMark ==
    [][(pc = "gate" /\ pc' = "sending") =>
          /\ is_consuming' = [is_consuming EXCEPT ![consumable_bucket'] = TRUE]
          /\ UNCHANGED <<danmakus, start_time, is_active, current_bucket>>]_vars

\* a full bucket was marked and merged, its POST not made yet
C26_Witness ==
    /\ pc = "sending"
    /\ send["ordinary"].posts = 0
    /\ is_consuming[consumable_bucket]
    /\ Len(danmakus[consumable_bucket]) = bucket_capacity
    /\ delivered[Len(delivered)].content = get_merged_danmaku(consumable_bucket).content

\* where a bucket is in its life
SlotStateOf(active, consuming) ==
    IF consuming THEN "Draining" ELSE IF active THEN "Active" ELSE "Idle"

\* C27: a bucket moves Idle -> Active -> Draining -> Idle only (Active -> Idle in one
\* step when it is selected, merged and reset in that step), and a bucket that is marked
\* as being consumed does not become the write target
C27_SlotStateMachine ==
    [][\A b \in Buckets :
          LET s == SlotStateOf(is_active[b], is_consuming[b])
              t == SlotStateOf(is_active'[b], is_consuming'[b])
          IN  /\ \/ s = t
                 \/ <<s, t>> \in {<<"Idle", "Active">>, <<"Active", "Draining">>,
                                  <<"Draining", "Idle">>}
                 \/ /\ <<s, t>> = <<"Active", "Idle">>
                    /\ OrdinaryDeliveryStep
                    /\ consumable_bucket' = b
              /\ (current_bucket' = b /\ current_bucket # b) => ~is_consuming'[b]]_vars

\* C28 as stated: before the first write both buckets are empty and inactive; a bucket
\* becomes active only in an add or in switch_bucket, as the write target, with
\* start_time = now
C28_CreatedInactive ==
    /\ [](received = 0 => \A b \in Buckets : danmakus[b] = <<>> /\ ~is_active[b])
    /\ [][\A b \in Buckets :
            (~is_active[b] /\ is_active'[b]) =>
                /\ AddStep \/ CompleteDrainStep
                /\ current_bucket' = b
                /\ start_time'[b] = now]_vars

\* C28 amended: before the first write both buckets are empty, B inactive with no
\* start_time, A active as the write target with the start_time of its creation; a bucket
\* becomes active later only in an add or in switch_bucket, as the write target, with
\* start_time = now
C28_Activation ==
    /\ [](received = 0 =>
            /\ \A b \in Buckets : danmakus[b] = <<>>
            /\ is_active = [b \in Buckets |-> b = "A"]
            /\ start_time = [b \in Buckets |-> IF b = "A" THEN 0 ELSE NoTime]
            /\ current_bucket = "A")
    /\ [][\A b \in Buckets :
            (~is_active[b] /\ is_active'[b]) =>
                /\ AddStep \/ CompleteDrainStep
                /\ current_bucket' = b
                /\ start_time'[b] = now]_vars

\* B was activated by switch_bucket after A's drain, with the time of that moment
C28_Witness ==
    /\ is_active["B"]
    /\ ~is_active["A"]
    /\ current_bucket = "B"
    /\ start_time["B"] > 0
    /\ danmakus["B"] = <<>>
    /\ delivered # <<>>

\* C29: from a state where consume_async sleeps and a paid message waits, no step takes
\* consume_async to can_consume, marks or selects a bucket or hands over a merge; and the
\* paid queue gets shorter only by the priority loop taking its head
C29_SkippedTick ==
    [][/\ (pc = "sleep" /\ paid_queue # <<>>) =>
             /\ pc' = "sleep"
             /\ gate' = gate
             /\ is_consuming' = is_consuming
             /\ consumable_bucket' = consumable_bucket
             /\ ~OrdinaryDeliveryStep
       /\ Len(paid_queue') < Len(paid_queue) =>
             /\ ppc = "idle"
             /\ PaidDeliveryStep
             /\ paid_queue' = Tail(paid_queue)
             /\ UNCHANGED <<pc, gate, bucket_vars>>]_vars

\* a paid message waits while a bucket is drainable and consume_async has asked nothing
C29_Witness ==
    /\ pc = "sleep"
    /\ paid_queue # <<>>
    /\ get_consumable_bucket # None
    /\ gate.queries = 0
    /\ delivered = <<>>
    /\ now = MaxTime

\* C30: every paid message received is in the queue or was handed over once; the end of
\* a delivery, whatever its outcome, puts nothing back and hands nothing over again; the
\* queue changes only by a new message at its end or by the loss of its head; and the
\* priority loop, back at its poll, can take the next message
C30_FailedPaidAdvances ==
    /\ [](Len(PaidDeliveries) + Len(paid_queue) = received_paid)
    /\ [](paid_queue # <<>> /\ ppc = "idle" /\ LoopFree => ENABLED PaidDequeue)
    /\ [][/\ (ppc = "sending" /\ ppc' = "idle") =>
                (paid_queue' = paid_queue /\ delivered' = delivered)
          /\ paid_queue' # paid_queue =>
                IF received_paid' = received_paid + 1
                THEN paid_queue' = Append(paid_queue,
                                          [content |-> PaidContent[received_paid'],
                                           danmu_type |-> PaidKind[received_paid']])
                ELSE /\ paid_queue # <<>>
                     /\ paid_queue' = Tail(paid_queue)
                     /\ PaidDeliveryStep]_vars

\* the first paid message has failed in every POST but the last, the second one waits
C30_Witness ==
    /\ Len(PaidDeliveries) = 1
    /\ ppc = "sending"
    /\ send["paid"].retry_count = main_server_max_retry_count
    /\ paid_queue # <<>>

\* C31: a pass of can_consume whose response is 200 with a JSON object ends the call in
\* that pass, with the flag of the response as the result (false when the flag is
\* missing), without a sleep and without counting a retry
C31_GatePassThrough ==
    [][(pc = "gate" /\ gate'.queries = gate.queries + 1
           /\ gate'.last \in {"ok_true", "ok_false", "ok_noflag"}) =>
          /\ gate'.result = IF gate'.last = "ok_true" THEN "true" ELSE "false"
          /\ gate'.sleeps = gate.sleeps
          /\ retry_count' = retry_count
          /\ pc' # "gate"]_vars

\* after one failed query the gate answered 200 without the flag: the call returned false
\* while a bucket was drainable
C31_Witness ==
    /\ gate.last = "ok_noflag"
    /\ gate.result = "false"
    /\ gate.queries = 2
    /\ gate.sleeps = 1
    /\ pc = "sleep"
    /\ get_consumable_bucket # None

\* the step in which can_consume returned true and get_consumable_bucket gave a bucket
SelectStep == pc = "gate" /\ gate'.result = "true" /\ consumable_bucket' \in Buckets

\* C34: the bucket that is marked was not marked before, and switch_bucket is called only
\* after a bucket was marked: in the same step, or with the marked bucket still marked
C34_NoDoubleDrain ==
    [][/\ SelectStep => ~is_consuming[consumable_bucket']
       /\ CompleteDrainStep =>
             IF pc = "gate" THEN SelectStep
             ELSE consumable_bucket \in Buckets /\ is_consuming[consumable_bucket]]_vars

\* the second drain is in progress, its bucket marked
C34_Witness ==
    /\ pc = "sending"
    /\ is_consuming[consumable_bucket]
    /\ Cardinality(OrdinaryDeliveries) = 2

\* C37: the bucket written to is active with a start_time, and so is every active bucket
C37_DefinedStartTime ==
    /\ is_active[current_bucket]
    /\ start_time[current_bucket] # NoTime
    /\ \A b \in Buckets : is_active[b] => start_time[b] # NoTime

\* an add during the drain of A has just activated B
C37_Witness ==
    /\ current_bucket = "B"
    /\ is_consuming["A"]
    /\ routed = "new"
    /\ start_time["B"] = now
    /\ now > bucket_lifetime

\* C38: a bucket that is not active is empty and not marked
C38_InactiveIsIdle ==
    \A b \in Buckets : ~is_active[b] => (danmakus[b] = <<>> /\ ~is_consuming[b])

\* A was drained and reset, B took over and holds a message
C38_Witness ==
    /\ ~is_active["A"]
    /\ is_active["B"]
    /\ danmakus["B"] # <<>>
    /\ Cardinality(OrdinaryDeliveries) = 1

\* C39: the merge of the bucket just selected is not None, and the iteration that marks
\* a bucket calls switch_bucket once before it ends: in the same step, or at the end of
\* the POST, during which nothing is selected or marked; the write target changes
\* outside an add only in that call
C39_MarkThenComplete ==
    [][/\ SelectStep =>
             /\ get_merged_danmaku(consumable_bucket') # NoMerge
             /\ OrdinaryDeliveryStep
             /\ \/ pc' = "sending" /\ current_bucket' = current_bucket
                \/ pc' = "sleep" /\ current_bucket' = Other(current_bucket)
       /\ (pc = "sending" /\ pc' = "sending") =>
             (consumable_bucket' = consumable_bucket /\ ~MarkStep)
       /\ (pc = "sending" /\ pc' # "sending") =>
             (pc' = "sleep" /\ current_bucket' = Other(current_bucket))
       /\ (current_bucket' # current_bucket /\ ~AddStep) =>
             (CompleteDrainStep /\ (pc = "gate" => SelectStep))
       /\ MarkStep => SelectStep]_vars

\* two iterations have marked a bucket, delivered it and called switch_bucket
C39_Witness ==
    /\ pc = "sleep"
    /\ main_server_configured
    /\ Cardinality(OrdinaryDeliveries) = 2
    /\ send["ordinary"] = send_start

\* C40: switch_bucket empties, deactivates and unmarks the bucket written to at the call
\* and makes the other bucket the write target, active with start_time = now, its
\* messages and its mark as they were
C40_SwitchActsOnWriteTarget ==
    [][CompleteDrainStep =>
          LET c == current_bucket
              o == Other(current_bucket)
          IN  /\ danmakus'[c] = <<>>
              /\ ~is_active'[c]
              /\ ~is_consuming'[c]
              /\ current_bucket' = o
              /\ is_active'[o]
              /\ start_time'[o] = now
              /\ danmakus'[o] = danmakus[o]
              /\ is_consuming'[o] = is_consuming[o]]_vars

\* the drain of A ended after the write target had moved to B: B was reset, and A, still
\* marked and still holding its message, is the write target again
C40_Witness ==
    /\ pc = "sleep"
    /\ current_bucket = "A"
    /\ is_consuming["A"]
    /\ danmakus["A"] # <<>>
    /\ ~is_active["B"]
    /\ start_time["A"] = now
    /\ received = 2

\* C32: while consume_async is inside can_consume a request can be handled and the
\* priority loop can run: a message can be received, a paid message that waits can be
\* taken, and a paid POST in progress can come back
C32_GateDoesNotStall ==
    pc = "gate" =>
        /\ received < MaxDanmaku => ENABLED ReceiveDanmaku
        /\ received_paid < MaxPaid => ENABLED ReceivePaid
        /\ (ppc = "idle" /\ paid_queue # <<>>) => ENABLED PaidDequeue
        /\ ppc = "sending" => ENABLED (\E o \in SendOutcomes : PaidFinish(o))

\* C35: when both loops are back at their poll every websocket that is subscribed has
\* been sent all that was handed to send_to_main_server while it was subscribed
C35_FanOut ==
    (ppc = "idle" /\ pc # "sending") =>
        \A w \in connections : owed[w] \subseteq pushed[w]

\* C36: while broadcast runs the connections are those it began with; when it ends the
\* connections are those less the ones whose send failed, a send was tried to every one
\* of them and those whose send succeeded have the message; a broadcast with nobody
\* subscribed sends nothing and changes nothing
C36_BroadcastPruning ==
    /\ [](bcast.pc = "sending" =>
            /\ connections = bcast.before
            /\ bcast.tried \cap bcast.todo = {}
            /\ bcast.tried \cup bcast.todo = bcast.before)
    /\ [][/\ (bcast.pc = "sending" /\ bcast'.pc = "idle") =>
                /\ connections' = bcast.before \ bcast.failed
                /\ bcast.tried = bcast.before
                /\ \A w \in bcast.before \ bcast.failed : bcast.n + 1 \in pushed[w]
                /\ \A w \in bcast.failed : bcast.n + 1 \notin pushed[w]
          /\ (bcast.pc = "idle" /\ bcast'.n = bcast.n + 1) =>
                (connections = {} /\ UNCHANGED <<connections, pushed>>)]_vars

\* a broadcast to two subscribers has ended: the send to w1 failed and w1 is gone, w2 got
\* the message and is still subscribed
C36_Witness ==
    /\ bcast.pc = "idle"
    /\ bcast.before = Sockets
    /\ bcast.failed = {"w1"}
    /\ connections = {"w2"}
    /\ bcast.n \in pushed["w2"]

\* C33: while a loop awaits send_to_main_server (a POST or the sleep between two POSTs)
\* it holds neither the lock of bucket_system nor the lock of danmaku_queue
C33_NoLockWhileDelivering ==
    /\ pc = "sending" => (lock.bucket # "consume_async" /\ lock.paid # "consume_async")
    /\ ppc = "sending" =>
          (lock.bucket # "process_danmaku_batch" /\ lock.paid # "process_danmaku_batch")

\* both loops await a POST, that of consume_async after a first one raised; the bucket
\* being delivered is still marked
C33_Witness ==
    /\ pc = "sending"
    /\ ppc = "sending"
    /\ send["ordinary"].retry_count = 1
    /\ is_consuming[consumable_bucket]
    /\ lock = [bucket |-> None, paid |-> None]
====
